---- MODULE Spec2Model ----
(***************************************************************************)
(* The ingestion pipeline of phd-collector: PhDCollector.run, its          *)
(* normalizer _clean_projects and its repository _save_projects            *)
(* (src/collector.py) over the phd_projects table (src/models.py).         *)
(*                                                                         *)
(* A Python str is a sequence of one-character strings, so that strip()    *)
(* and split("?utm") are computed character by character.  A candidate     *)
(* dict is a function from its keys to such strings.  The store is the     *)
(* sequence of rows of phd_projects in id order (row i has id i).          *)
(*                                                                         *)
(* Two more specifications follow the pipeline's Spec and SpecClean:       *)
(* SpecScrape runs the page loops of the scrapers (src/scrapers) and       *)
(* fetch_page (src/scrapers/base.py) step by step inside one run();        *)
(* SpecClassify applies the two keyword classifiers to a listing's text.   *)
(***************************************************************************)
EXTENDS Integers, Sequences, FiniteSets, TLC

\* The longest list one scrape() returns, and the most elements one page
\* of a listing holds.
MaxBatch == 2

\* The last reading the clock gives; a step that would read past it waits.
MaxClock == 4

----------------------------------------------------------------------------
(* State *)

VARIABLES
    db,       \* the committed rows of phd_projects
    now,      \* what the next utcnow() returns
    pc,       \* where run() stands: "scrape", "clean", "save", "saved", "done";
              \* for a scrape() called on its own: "call", "returned", "raised";
              \* for a listing's text: "discipline", "funding", "classified"
    idx,      \* the index in self.scrapers of the scraper in hand
    stats,    \* run()'s stats dict
    scraped,  \* history: the list scrape() returned, as it was returned
    raw,      \* raw_projects
    cleaned,  \* cleaned, the list _save_projects loops over
    pos,      \* the index in cleaned of the next candidate of the loop
    tx,       \* the session's view: the table plus the session's own writes
    saved,    \* _save_projects' saved
    dupes,    \* _save_projects' dupes
    failed,   \* whether the except clause of _save_projects ran
    sc,       \* the scraper whose scrape() ran last or is running
    spc,      \* where scrape() stands: "idle", "sleep", "get", "parse"
    rg,       \* the index of the region in hand in the scraper's url table
    ui,       \* the index of the url in hand among the region's urls
    pg,       \* the page in hand, counted from 1
    attempt,  \* fetch_page's attempt, counted from 0
    soup,     \* what fetch_page returned
    url_projects,     \* _scrape_region's projects
    region_projects,  \* ScholarshipDbScraper.scrape's region_projects
    all_projects,     \* scrape's all_projects
    seen_urls,        \* ScholarshipDbScraper.scrape's seen_urls
    gets,     \* history: the GET requests the fetch_page call in hand sent
    fetches,  \* history: the fetch_page calls made for the url in hand
    text,     \* the text of a listing handed to the classifiers
    funding,  \* what detect_funding_type returned for text
    disc,     \* what _detect_discipline returned for text
    ses,      \* of each of two interleaved _save_projects calls: its
              \* candidates, its place in the loop, its session, its counters
    wlock     \* the call whose connection holds the write lock of the
              \* database file, 0 for none

classVars == <<text, funding, disc>>

concVars == <<ses, wlock>>

scrapeVars ==
    <<sc, spc, rg, ui, pg, attempt, soup, url_projects,
      region_projects,
      all_projects, seen_urls, gets, fetches>>

vars ==
    <<db, now, pc, idx, stats, scraped, raw, cleaned, pos, tx, saved, dupes,
      failed, scrapeVars, classVars, concVars>>

saveVars == <<cleaned, pos, tx, saved, dupes, failed>>

----------------------------------------------------------------------------
(* str helpers *)

Whitespace == {" ", "\t", "\n"}

RECURSIVE LStrip(_)
LStrip(s) ==
    IF s # <<>> /\ Head(s) \in Whitespace THEN LStrip(Tail(s)) ELSE s

RECURSIVE RStrip(_)
RStrip(s) ==
    IF s # <<>> /\ s[Len(s)] \in Whitespace
    THEN RStrip(SubSeq(s, 1, Len(s) - 1))
    ELSE s

\* str.strip()
Strip(s) == RStrip(LStrip(s))

StartsWith(s, m) == Len(s) >= Len(m) /\ SubSeq(s, 1, Len(m)) = m

\* s.split(m)[0]: what stands before the first occurrence of m.
RECURSIVE SplitFirst(_, _)
SplitFirst(s, m) ==
    IF s = <<>> \/ StartsWith(s, m)
    THEN <<>>
    ELSE <<Head(s)>> \o SplitFirst(Tail(s), m)

UtmMarker == <<"?", "u", "t", "m">>

\* Python truthiness of a str (or of None, read as the empty str).
Truthy(v) == v # <<>>

\* dict.get(key, default)
Get(p, key, default) == IF key \in DOMAIN p THEN p[key] ELSE default

----------------------------------------------------------------------------
(* _clean_projects *)

StripFields(p) == [k \in DOMAIN p |-> Strip(p[k])]

NormalizeUrl(p) == [p EXCEPT !["url"] = SplitFirst(p["url"], UtmMarker)]

\* Whether the loop body `continue`s on p.
Dropped(p) ==
    \/ DOMAIN p = {}
    \/ ~Truthy(Get(p, "title", <<>>))
    \/ ~Truthy(Get(p, "url", <<>>))

CleanOne(p) == NormalizeUrl(StripFields(p))

RECURSIVE clean_projects(_)
clean_projects(projects) ==
    IF projects = <<>>
    THEN <<>>
    ELSE IF Dropped(Head(projects))
         THEN clean_projects(Tail(projects))
         ELSE <<CleanOne(Head(projects))>> \o clean_projects(Tail(projects))

\* _clean_projects assigns into the dicts of the list it is given: after it,
\* raw_projects holds the kept candidates as cleaned and the dropped ones as
\* they were.
CleanInPlace(projects) ==
    [k \in 1..Len(projects) |->
        IF Dropped(projects[k]) THEN projects[k] ELSE CleanOne(projects[k])]

----------------------------------------------------------------------------
(* The phd_projects table and the session's view of it *)

MergeFields == {"deadline", "funding_type", "description"}

Unknown == <<"u", "n", "k", "n", "o", "w", "n">>

Min(S) == CHOOSE x \in S : \A y \in S : x <= y

\* Mutant of FindByUrl: the query does not flush first, so it sees only the
\* rows the table held when the session began.
FindByUrlNoFlush(store, u) ==
    LET ids == {k \in 1..Len(store) : k <= Len(db) /\ store[k].url = u}
    IN  IF ids = {} THEN 0 ELSE Min(ids)

\* session.query(PhDProject).filter_by(url=u).first(): the id of the row,
\* 0 for None.  The query autoflushes, so it sees the rows added before it
\* in the same session.
FindByUrl(store, u) ==
    LET ids == {k \in 1..Len(store) : store[k].url = u}
    IN  IF ids = {} THEN 0 ELSE Min(ids)

\* Mutant of ChangedFields: the test `new_val and` is left out.
ChangedFieldsNoTruthTest(row, p) ==
    {f \in MergeFields : row[f] # Get(p, f, <<>>)}

\* The fields the merge loop assigns: new_val and getattr(existing, f) != new_val.
ChangedFields(row, p) ==
    {f \in MergeFields :
        Truthy(Get(p, f, <<>>)) /\ row[f] # Get(p, f, <<>>)}

\* Mutant of MergeRow: the merge stamps collected_at as well.
MergeRowRecollect(row, p, clock) ==
    LET ch == {f \in MergeFields :
                  Truthy(Get(p, f, <<>>)) /\ row[f] # Get(p, f, <<>>)}
    IN  [k \in DOMAIN row |->
            IF k \in ch THEN p[k]
            ELSE IF k \in {"updated_at", "collected_at"} THEN clock
            ELSE row[k]]

\* Mutant of MergeRow: the loop runs over title as well.
MergeRowWithTitle(row, p, clock) ==
    LET ch == {f \in MergeFields \cup {"title"} :
                  Truthy(Get(p, f, <<>>)) /\ row[f] # Get(p, f, <<>>)}
    IN  [k \in DOMAIN row |->
            IF k \in ch THEN p[k]
            ELSE IF k = "updated_at" /\ ch # {} THEN clock
            ELSE row[k]]

\* Mutant of MergeRow: updated_at is set whether or not a field changed.
MergeRowAlwaysBump(row, p, clock) ==
    LET ch == {f \in MergeFields :
                  Truthy(Get(p, f, <<>>)) /\ row[f] # Get(p, f, <<>>)}
    IN  [k \in DOMAIN row |->
            IF k \in ch THEN p[k]
            ELSE IF k = "updated_at" THEN clock
            ELSE row[k]]

\* The row after the merge loop; clock is what utcnow() returns.
MergeRow(row, p, clock) ==
    LET ch == ChangedFields(row, p)
    IN  [k \in DOMAIN row |->
            IF k \in ch THEN p[k]
            ELSE IF k = "updated_at" /\ ch # {} THEN clock
            ELSE row[k]]

\* PhDProject(...), session.add, and the INSERT of the next flush: id is the
\* next autoincrement value, collected_at the constructor's utcnow(),
\* updated_at the column default's utcnow() at the flush.
NewRow(p, clock, id) ==
    [id           |-> id,
     title        |-> Get(p, "title", <<>>),
     university   |-> Get(p, "university", <<>>),
     department   |-> Get(p, "department", <<>>),
     supervisor   |-> Get(p, "supervisor", <<>>),
     region       |-> Get(p, "region", <<>>),
     region_cn    |-> Get(p, "region_cn", <<>>),
     country      |-> Get(p, "country", <<>>),
     funding_type |-> Get(p, "funding_type", Unknown),
     discipline   |-> Get(p, "discipline", <<>>),
     deadline     |-> Get(p, "deadline", <<>>),
     description  |-> Get(p, "description", <<>>),
     url          |-> Get(p, "url", <<>>),
     source       |-> Get(p, "source", <<>>),
     is_new       |-> TRUE,
     collected_at |-> clock,
     updated_at   |-> clock + 1]

\* How many times the loop body reads the clock for p.
Ticks(store, p) ==
    LET e == FindByUrl(store, p["url"])
    IN  IF e = 0 THEN 2
        ELSE IF ChangedFields(store[e], p) # {} THEN 1 ELSE 0

\* One pass of the for loop of _save_projects over the session's view.
SaveOne(store, p, clock) ==
    LET e == FindByUrl(store, p["url"])
    IN  IF e # 0
        THEN [store EXCEPT ![e] = MergeRow(store[e], p, clock)]
        ELSE Append(store, NewRow(p, clock, Len(store) + 1))

\* session.commit(): the session's view becomes the table.
Commit(table, view) == view

\* Mutant of Rollback: what the session had flushed stays in the table.
RollbackKeepsFlushed(table, view) == view

\* session.rollback(): the table stays as it was.
Rollback(table, view) == table

----------------------------------------------------------------------------
(* What the extractors can hand to run() *)

Sources == <<"euraxess", "scholarshipdb">>

SourceName(k) ==
    IF Sources[k] = "euraxess" THEN <<"e">> ELSE <<"s">>

\* A listing as _parse_listing returns it: every key present, the texts
\* already stripped by get_text(strip=True), the url the href as it stands
\* behind BASE_URL ("h" here).  Title and the descriptive fields are fixed
\* per source; ScholarshipDb listings carry no deadline.
BaseListing(k) ==
    [title        |-> IF k = 1 THEN <<"T">> ELSE <<"S">>,
     university   |-> IF k = 1 THEN <<"U">> ELSE <<"V">>,
     department   |-> <<>>,
     supervisor   |-> <<>>,
     region       |-> IF k = 1 THEN <<"e">> ELSE <<"a">>,
     region_cn    |-> IF k = 1 THEN <<"E">> ELSE <<"A">>,
     country      |-> IF k = 1 THEN <<"D">> ELSE <<"O">>,
     funding_type |-> IF k = 1 THEN Unknown ELSE <<"c", "s", "c">>,
     discipline   |-> IF k = 1 THEN <<"p">> ELSE <<>>,
     deadline     |-> IF k = 1 THEN <<"1">> ELSE <<>>,
     description  |-> IF k = 1 THEN <<"d">> ELSE <<"g">>,
     url          |-> <<"h", "x">>,
     source       |-> SourceName(k)]

UtmUrl == <<"h", "x", "?", "u", "t", "m", "=">>

SpaceUrl == <<"h", "x", " ">>

SpaceUtmUrl == <<"h", "x", " ", "?", "u", "t", "m", "=">>

\* The listings a page of source k may show: the base listing and listings
\* that differ from it in one field.  The two sources differ in
\* funding_type and description, so a merge across sources changes both.
Listings(k) ==
    LET b == BaseListing(k)
    IN  IF k = 1
        THEN {b,
              [b EXCEPT !["url"] = UtmUrl],
              [b EXCEPT !["deadline"] = <<>>],
              [b EXCEPT !["deadline"] = <<"2">>],
              [b EXCEPT !["description"] = <<>>],
              [b EXCEPT !["title"] = <<>>]}
        ELSE {b,
              [b EXCEPT !["url"] = SpaceUrl],
              [b EXCEPT !["url"] = SpaceUtmUrl],
              [b EXCEPT !["url"] = <<>>],
              [b EXCEPT !["description"] = <<>>]}

SeqsUpTo(S, n) == UNION {[1..m -> S] : m \in 0..n}

NoRepeatedUrl(ps) ==
    \A j, k \in 1..Len(ps) : j # k => ps[j]["url"] # ps[k]["url"]

\* EuraxessScraper.scrape appends every parsed listing of every page;
\* ScholarshipDbScraper.scrape keeps the first listing of each url.
ScrapeResults(k) ==
    IF Sources[k] = "scholarshipdb"
    THEN {ps \in SeqsUpTo(Listings(k), MaxBatch) : NoRepeatedUrl(ps)}
    ELSE SeqsUpTo(Listings(k), MaxBatch)

----------------------------------------------------------------------------
(* Initial state and the steps of run() *)

\* fetch_page's None, and the document it builds from a response: of a
\* document the model keeps the elements the listing selector matches.
None == [none |-> TRUE, listings |-> <<>>]

Document(items) == [none |-> FALSE, listings |-> items]

\* No scrape() has been called yet.
ScrapeIdle ==
    /\ sc = ""
    /\ spc = "idle"
    /\ rg = 1
    /\ ui = 1
    /\ pg = 1
    /\ attempt = 0
    /\ soup = None
    /\ url_projects = <<>>
    /\ region_projects = <<>>
    /\ all_projects = <<>>
    /\ seen_urls = {}
    /\ gets = 0
    /\ fetches = 0

\* No text has been classified.
ClassIdle ==
    /\ text = <<>>
    /\ funding = <<>>
    /\ disc = <<>>

\* The two calls of _save_projects that may interleave: the scheduler's
\* daily job and a run started by hand.
Runs == {1, 2}

\* The locals of a _save_projects call over the list ps and its session:
\* new holds what the session has not flushed yet, view the rows of the
\* table as the connection sees them once it has written, objs the rows the
\* session has loaded, as it holds them.
SaveCall(ps, at) ==
    [cleaned |-> ps,
     pos     |-> 1,
     new     |-> <<>>,
     view    |-> <<>>,
     objs    |-> {},
     saved   |-> 0,
     dupes   |-> 0,
     pc      |-> at]

\* No two calls of _save_projects are interleaved.
ConcIdle ==
    /\ ses = [r \in Runs |-> SaveCall(<<>>, "idle")]
    /\ wlock = 0

ZeroStats == [total_scraped |-> 0, new_saved |-> 0, duplicates |-> 0, errors |-> 0]

Init ==
    /\ db = <<>>
    /\ now = 0
    /\ pc = "scrape"
    /\ idx = 1
    /\ stats = ZeroStats
    /\ scraped = <<>>
    /\ raw = <<>>
    /\ cleaned = <<>>
    /\ pos = 1
    /\ tx = <<>>
    /\ saved = 0
    /\ dupes = 0
    /\ failed = FALSE
    /\ ScrapeIdle
    /\ ClassIdle
    /\ ConcIdle

\* The locals of _save_projects end with the call.
ClearSave ==
    /\ cleaned' = <<>>
    /\ pos' = 1
    /\ tx' = <<>>
    /\ saved' = 0
    /\ dupes' = 0
    /\ failed' = FALSE

\* The for loop of run() moves to the next scraper, or run() returns.
Advance ==
    IF idx < Len(Sources)
    THEN /\ idx' = idx + 1
         /\ pc' = "scrape"
    ELSE /\ idx' = idx
         /\ pc' = "done"

\* scraper.scrape() returns; stats["total_scraped"] += len(raw_projects).
ScrapeOk ==
    /\ pc = "scrape"
    /\ \E ps \in ScrapeResults(idx) :
          /\ raw' = ps
          /\ scraped' = ps
          /\ stats' = [stats EXCEPT !.total_scraped = @ + Len(ps)]
    /\ pc' = "clean"
    /\ UNCHANGED <<db, now, idx, saveVars>>
    /\ UNCHANGED scrapeVars
    /\ UNCHANGED classVars
    /\ UNCHANGED concVars

\* Mutant of ScrapeRaise: the try statement stands around the for loop, so
\* the failure is counted and the loop is left.
ScrapeRaiseLeavesLoop ==
    /\ pc = "scrape"
    /\ stats' = [stats EXCEPT !.errors = @ + 1]
    /\ raw' = <<>>
    /\ scraped' = <<>>
    /\ idx' = idx
    /\ pc' = "done"
    /\ UNCHANGED <<db, now, saveVars>>
    /\ UNCHANGED scrapeVars
    /\ UNCHANGED classVars
    /\ UNCHANGED concVars

\* Mutant of ScrapeRaise: the failure is counted and the same scraper is
\* tried again.
ScrapeRaiseTriesAgain ==
    /\ pc = "scrape"
    /\ stats.errors < 2
    /\ stats' = [stats EXCEPT !.errors = @ + 1]
    /\ raw' = <<>>
    /\ scraped' = <<>>
    /\ idx' = idx
    /\ pc' = "scrape"
    /\ UNCHANGED <<db, now, saveVars>>
    /\ UNCHANGED scrapeVars
    /\ UNCHANGED classVars
    /\ UNCHANGED concVars

\* scraper.scrape() raises: the except clause of run() counts it.
ScrapeRaise ==
    /\ pc = "scrape"
    /\ stats' = [stats EXCEPT !.errors = @ + 1]
    /\ raw' = <<>>
    /\ scraped' = <<>>
    /\ Advance
    /\ UNCHANGED <<db, now, saveVars>>
    /\ UNCHANGED scrapeVars
    /\ UNCHANGED classVars
    /\ UNCHANGED concVars

\* cleaned = self._clean_projects(raw_projects), then the head of
\* _save_projects: a new session, saved = 0, dupes = 0.
Clean ==
    /\ pc = "clean"
    /\ cleaned' = clean_projects(raw)
    /\ tx' = db
    /\ pos' = 1
    /\ saved' = 0
    /\ dupes' = 0
    /\ failed' = FALSE
    /\ raw' = CleanInPlace(raw)
    /\ pc' = "save"
    /\ UNCHANGED <<db, now, idx, stats, scraped>>
    /\ UNCHANGED scrapeVars
    /\ UNCHANGED classVars
    /\ UNCHANGED concVars

\* Mutant of SaveStep: dupes counts only the candidates whose merge
\* changed a field.
SaveStepCountsChanges ==
    /\ pc = "save"
    /\ pos <= Len(cleaned)
    /\ LET p == cleaned[pos]
           e == FindByUrl(tx, p["url"])
       IN  /\ now + Ticks(tx, p) <= MaxClock
           /\ tx' = SaveOne(tx, p, now)
           /\ now' = now + Ticks(tx, p)
           /\ saved' = IF e = 0 THEN saved + 1 ELSE saved
           /\ dupes' = IF e # 0 /\ ChangedFields(tx[e], p) # {}
                       THEN dupes + 1 ELSE dupes
    /\ pos' = pos + 1
    /\ UNCHANGED <<db, pc, idx, stats, scraped, raw, cleaned, failed>>
    /\ UNCHANGED scrapeVars
    /\ UNCHANGED classVars
    /\ UNCHANGED concVars

\* One pass of the for loop of _save_projects.
SaveStep ==
    /\ pc = "save"
    /\ pos <= Len(cleaned)
    /\ LET p == cleaned[pos]
           e == FindByUrl(tx, p["url"])
       IN  /\ now + Ticks(tx, p) <= MaxClock
           /\ tx' = SaveOne(tx, p, now)
           /\ now' = now + Ticks(tx, p)
           /\ saved' = IF e = 0 THEN saved + 1 ELSE saved
           /\ dupes' = IF e = 0 THEN dupes ELSE dupes + 1
    /\ pos' = pos + 1
    /\ UNCHANGED <<db, pc, idx, stats, scraped, raw, cleaned, failed>>
    /\ UNCHANGED scrapeVars
    /\ UNCHANGED classVars
    /\ UNCHANGED concVars

\* session.commit() succeeds; _save_projects returns (saved, dupes).
SaveCommit ==
    /\ pc = "save"
    /\ pos = Len(cleaned) + 1
    /\ db' = Commit(db, tx)
    /\ pc' = "saved"
    /\ UNCHANGED <<now, idx, stats, scraped, raw, cleaned, pos, tx, saved,
                   dupes, failed>>
    /\ UNCHANGED scrapeVars
    /\ UNCHANGED classVars
    /\ UNCHANGED concVars

\* The storage layer raises: in the query (or its autoflush) for the
\* candidate at pos, or in session.commit() once the loop is over.  The
\* except clause rolls back and _save_projects returns (saved, dupes).
SaveFail ==
    /\ pc = "save"
    /\ cleaned # <<>>
    /\ db' = Rollback(db, tx)
    /\ tx' = db
    /\ failed' = TRUE
    /\ pc' = "saved"
    /\ UNCHANGED <<now, idx, stats, scraped, raw, cleaned, pos, saved, dupes>>
    /\ UNCHANGED scrapeVars
    /\ UNCHANGED classVars
    /\ UNCHANGED concVars

\* Back in run(): stats["new_saved"] += saved; stats["duplicates"] += dupes.
Account ==
    /\ pc = "saved"
    /\ stats' = [stats EXCEPT !.new_saved = @ + saved,
                              !.duplicates = @ + dupes]
    /\ Advance
    /\ raw' = <<>>
    /\ scraped' = <<>>
    /\ ClearSave
    /\ UNCHANGED <<db, now>>
    /\ UNCHANGED scrapeVars
    /\ UNCHANGED classVars
    /\ UNCHANGED concVars

\* run() is called again (the scheduler's next day, or a manual trigger).
StartRun ==
    /\ pc = "done"
    /\ stats' = ZeroStats
    /\ idx' = 1
    /\ pc' = "scrape"
    /\ UNCHANGED <<db, now, scraped, raw, saveVars>>
    /\ UNCHANGED scrapeVars
    /\ UNCHANGED classVars
    /\ UNCHANGED concVars

Next ==
    \/ ScrapeOk
    \/ ScrapeRaise
    \/ Clean
    \/ SaveStep
    \/ SaveCommit
    \/ SaveFail
    \/ Account
    \/ StartRun

Spec == Init /\ [][Next]_vars

----------------------------------------------------------------------------
(* _clean_projects and _save_projects as functions of any list of dicts:   *)
(* the list is drawn at the start, cleaned, and saved into an empty table. *)

CleanTitles == {<<>>, <<" ">>, <<"T">>, <<" ", "T", " ">>}

CleanUrls ==
    {<<>>, <<" ">>, UtmMarker \o <<"=">>, <<"h", "x">>, UtmUrl, SpaceUrl,
     SpaceUtmUrl, <<" ", "h", "x">>}

\* Dicts with both mandatory keys, dicts that lack one, and the empty dict.
CleanCandidates ==
    {[title |-> t, url |-> u, deadline |-> <<"1", " ">>] :
        t \in CleanTitles, u \in CleanUrls}
    \cup {[title |-> <<"T">>], [url |-> <<"h", "x">>], <<>>}

InitClean ==
    /\ db = <<>>
    /\ now = 0
    /\ pc = "clean"
    /\ idx = 1
    /\ raw \in SeqsUpTo(CleanCandidates, MaxBatch)
    /\ scraped = raw
    /\ stats = [ZeroStats EXCEPT !.total_scraped = Len(raw)]
    /\ cleaned = <<>>
    /\ pos = 1
    /\ tx = <<>>
    /\ saved = 0
    /\ dupes = 0
    /\ failed = FALSE
    /\ ScrapeIdle
    /\ ClassIdle
    /\ ConcIdle

NextClean ==
    \/ Clean
    \/ SaveStep
    \/ SaveCommit

SpecClean == InitClean /\ [][NextClean]_vars

----------------------------------------------------------------------------
(* The extractors: fetch_page and the page loops of the three scrapers, run *)
(* by run() (self.scrapers) or, for FindAPhDScraper, which no collector    *)
(* holds, called on its own.                                               *)

MAX_RETRIES == 3

MAX_PAGES_euraxess == 3

MAX_PAGES_scholarshipdb == 3

MAX_PAGES_findaphd == 5

MAX_PAGES(s) ==
    CASE s = "euraxess"      -> MAX_PAGES_euraxess
      [] s = "scholarshipdb" -> MAX_PAGES_scholarshipdb
      [] s = "findaphd"      -> MAX_PAGES_findaphd

\* The url table a scraper walks, as the number of urls of each region in
\* declaration order: EURAXESS_SEARCH_URL alone, SCHOLARSHIPDB_URLS
\* (europe, australia, north_america), FINDAPHD_URLS (one url a region).
RegionUrls(s) ==
    CASE s = "euraxess"      -> <<1>>
      [] s = "scholarshipdb" -> <<5, 1, 2>>
      [] s = "findaphd"      -> <<1, 1, 1>>

RegionName == <<<<"e">>, <<"a">>, <<"n">>>>

RegionCn == <<<<"E">>, <<"A">>, <<"N">>>>

\* What _parse_listing makes of the elements a page of scraper s may hold
\* while region r is scraped: {} for an element without a title link, else
\* the scraper's listing under one of two hrefs, with the region it was
\* found under.
PageItems(s, r) ==
    LET b == IF s = "euraxess"
             THEN BaseListing(1)
             ELSE [BaseListing(2) EXCEPT
                      !["region"] = RegionName[r],
                      !["region_cn"] = RegionCn[r],
                      !["source"] = IF s = "findaphd" THEN <<"f">> ELSE @]
    IN  {<<>>, b, [b EXCEPT !["url"] = UtmUrl]}

\* for item in listings: project = _parse_listing(item); if project: append.
Parsed(items) == SelectSeq(items, LAMBDA it : DOMAIN it # {})

\* ScholarshipDbScraper.scrape: for p in projects: if p.get("url") not in
\* seen_urls: seen_urls.add(...); region_projects.append(p).
RECURSIVE Dedupe(_, _, _)
Dedupe(ps, seen, out) ==
    IF ps = <<>>
    THEN [seen |-> seen, out |-> out]
    ELSE LET u == Head(ps)["url"]
         IN  IF u \in seen
             THEN Dedupe(Tail(ps), seen, out)
             ELSE Dedupe(Tail(ps), seen \cup {u}, Append(out, Head(ps)))

\* The list the page loop in hand appends to.
Gathered == IF sc = "euraxess" THEN all_projects ELSE url_projects

\* The page loop of the url in hand is over with the list found: what the
\* enclosing loops of scrape() make of it, and where they stand then.
AfterPages(found) ==
    LET counts == RegionUrls(sc)
        lastUrl == ui = counts[rg]
        d == IF sc = "scholarshipdb"
             THEN Dedupe(found, seen_urls, region_projects)
             ELSE [seen |-> seen_urls, out |-> found]
    IN  [returns |-> lastUrl /\ rg = Len(counts),
         seen    |-> d.seen,
         region  |-> IF lastUrl THEN <<>> ELSE d.out,
         all     |-> IF sc = "euraxess" THEN found
                     ELSE IF lastUrl THEN all_projects \o d.out
                     ELSE all_projects,
         rg      |-> IF lastUrl THEN rg + 1 ELSE rg,
         ui      |-> IF lastUrl THEN 1 ELSE ui + 1]

\* Mutant of FetchPage: the page number is not taken over, so the loop asks
\* for the same page again.
FetchPageStaysOnPage(p) ==
    /\ pg' = pg
    /\ attempt' = 0
    /\ gets' = 0
    /\ soup' = None
    /\ spc' = "sleep"

\* fetch_page is entered for page p of the url in hand.
FetchPage(p) ==
    /\ pg' = p
    /\ attempt' = 0
    /\ gets' = 0
    /\ soup' = None
    /\ spc' = "sleep"

\* scrape() returns the list ps to its caller: run() adds its length to
\* stats["total_scraped"].
Return(ps) ==
    /\ raw' = ps
    /\ scraped' = ps
    /\ stats' = IF pc = "scrape"
                THEN [stats EXCEPT !.total_scraped = @ + Len(ps)]
                ELSE stats
    /\ pc' = IF pc = "scrape" THEN "clean" ELSE "returned"
    /\ spc' = "idle"
    /\ rg' = 1
    /\ ui' = 1
    /\ pg' = 1
    /\ attempt' = 0
    /\ gets' = 0
    /\ fetches' = 0
    /\ soup' = None
    /\ url_projects' = <<>>
    /\ region_projects' = <<>>
    /\ all_projects' = <<>>
    /\ seen_urls' = {}
    /\ UNCHANGED <<db, now, idx, saveVars, sc>>
    /\ UNCHANGED classVars
    /\ UNCHANGED concVars

\* The page loop of the url in hand ends with the list found: the next url
\* or region is taken up, or scrape() returns.
EndPages(found) ==
    LET a == AfterPages(found)
    IN  IF a.returns
        THEN Return(a.all)
        ELSE /\ seen_urls' = a.seen
             /\ region_projects' = a.region
             /\ all_projects' = a.all
             /\ url_projects' = <<>>
             /\ rg' = a.rg
             /\ ui' = a.ui
             /\ fetches' = 1
             /\ FetchPage(1)
             /\ UNCHANGED <<db, now, pc, idx, stats, scraped, raw, saveVars,
                            sc, classVars, concVars>>

\* run() calls scraper.scrape() (or FindAPhDScraper().scrape() is called):
\* the lists are empty and the first page of the first url is asked for.
ScrapeCall ==
    /\ pc \in {"scrape", "call"}
    /\ spc = "idle"
    /\ sc' = IF pc = "call" THEN "findaphd" ELSE Sources[idx]
    /\ all_projects' = <<>>
    /\ seen_urls' = {}
    /\ region_projects' = <<>>
    /\ url_projects' = <<>>
    /\ rg' = 1
    /\ ui' = 1
    /\ fetches' = 1
    /\ FetchPage(1)
    /\ UNCHANGED <<db, now, pc, idx, stats, scraped, raw, saveVars>>
    /\ UNCHANGED classVars
    /\ UNCHANGED concVars

\* time.sleep(REQUEST_DELAY)
Sleep ==
    /\ spc = "sleep"
    /\ spc' = "get"
    /\ UNCHANGED <<db, now, pc, idx, stats, scraped, raw, saveVars, sc, rg,
                   ui, pg, attempt, soup, url_projects, region_projects,
                   all_projects, seen_urls, gets, fetches>>
    /\ UNCHANGED classVars
    /\ UNCHANGED concVars

\* session.get answers 200: fetch_page returns the document.  The pages
\* drawn keep the list in hand within MaxBatch.
GetOk ==
    /\ spc = "get"
    /\ \E items \in SeqsUpTo(PageItems(sc, rg), MaxBatch) :
          /\ Len(all_projects) + Len(url_projects) + Len(Parsed(items))
                <= MaxBatch
          /\ soup' = Document(items)
    /\ gets' = gets + 1
    /\ spc' = "parse"
    /\ UNCHANGED <<db, now, pc, idx, stats, scraped, raw, saveVars, sc, rg,
                   ui, pg, attempt, url_projects, region_projects,
                   all_projects, seen_urls, fetches>>
    /\ UNCHANGED classVars
    /\ UNCHANGED concVars

\* Mutant of Retry: the next attempt is made at once, without the delay.
RetryNoDelay ==
    /\ attempt' = attempt + 1
    /\ gets' = gets + 1
    /\ soup' = None
    /\ spc' = IF attempt + 1 < MAX_RETRIES THEN "get" ELSE "parse"

\* Mutant of Retry: the loop goes on after the last attempt.
RetryUnbounded ==
    /\ attempt' = attempt + 1
    /\ gets' = gets + 1
    /\ soup' = None
    /\ spc' = IF attempt + 1 <= MAX_RETRIES THEN "sleep" ELSE "parse"

\* The attempt failed: the for loop of fetch_page takes the next attempt,
\* or is over and fetch_page returns None.
Retry ==
    /\ attempt' = attempt + 1
    /\ gets' = gets + 1
    /\ soup' = None
    /\ spc' = IF attempt + 1 < MAX_RETRIES THEN "sleep" ELSE "parse"

\* session.get answers with a status code other than 200.
GetBadStatus ==
    /\ spc = "get"
    /\ Retry
    /\ UNCHANGED <<db, now, pc, idx, stats, scraped, raw, saveVars, sc, rg,
                   ui, pg, url_projects, region_projects, all_projects,
                   seen_urls, fetches>>
    /\ UNCHANGED classVars
    /\ UNCHANGED concVars

\* session.get raises a requests.RequestException.
GetException ==
    /\ spc = "get"
    /\ Retry
    /\ UNCHANGED <<db, now, pc, idx, stats, scraped, raw, saveVars, sc, rg,
                   ui, pg, url_projects, region_projects, all_projects,
                   seen_urls, fetches>>
    /\ UNCHANGED classVars
    /\ UNCHANGED concVars

\* Mutant of Break: the loop takes the next page all the same.
BreakGoesOn ==
    /\ IF pg < MAX_PAGES(sc)
       THEN /\ fetches' = fetches + 1
            /\ FetchPage(pg + 1)
            /\ UNCHANGED <<db, now, pc, idx, stats, scraped, raw, saveVars,
                           sc, rg, ui, url_projects, region_projects,
                           all_projects, seen_urls, classVars, concVars>>
       ELSE EndPages(Gathered)

\* Mutant of PageFailed: the failed page empties the list gathered from
\* the pages before it.
PageFailedDropsGathered ==
    /\ spc = "parse"
    /\ soup.none
    /\ EndPages(<<>>)

\* break: the page loop is left with what it has gathered.
Break == EndPages(Gathered)

\* if not soup: break
PageFailed ==
    /\ spc = "parse"
    /\ soup.none
    /\ Break

\* if not listings: break
PageEmpty ==
    /\ spc = "parse"
    /\ ~soup.none
    /\ soup.listings = <<>>
    /\ Break

\* The page has listing elements: the parsed ones are appended, and the
\* loop takes the next page unless this was page MAX_PAGES.
PageListed ==
    /\ spc = "parse"
    /\ ~soup.none
    /\ soup.listings # <<>>
    /\ LET found == Gathered \o Parsed(soup.listings)
       IN  IF pg < MAX_PAGES(sc)
           THEN /\ IF sc = "euraxess"
                   THEN /\ all_projects' = found
                        /\ url_projects' = url_projects
                   ELSE /\ url_projects' = found
                        /\ all_projects' = all_projects
                /\ fetches' = fetches + 1
                /\ FetchPage(pg + 1)
                /\ UNCHANGED <<db, now, pc, idx, stats, scraped, raw,
                               saveVars, sc, rg, ui, region_projects,
                               seen_urls, classVars, concVars>>
           ELSE EndPages(found)

\* session.get answers 200 and building the document raises: the exception
\* is no requests.RequestException, so it leaves fetch_page and scrape().
\* In run() the except clause counts it and the next scraper is taken.
ScrapeAbort ==
    /\ spc = "get"
    /\ IF pc = "scrape"
       THEN /\ stats' = [stats EXCEPT !.errors = @ + 1]
            /\ Advance
       ELSE /\ stats' = stats
            /\ idx' = idx
            /\ pc' = "raised"
    /\ raw' = <<>>
    /\ scraped' = <<>>
    /\ spc' = "idle"
    /\ rg' = 1
    /\ ui' = 1
    /\ pg' = 1
    /\ attempt' = 0
    /\ gets' = 0
    /\ fetches' = 0
    /\ soup' = None
    /\ url_projects' = <<>>
    /\ region_projects' = <<>>
    /\ all_projects' = <<>>
    /\ seen_urls' = {}
    /\ UNCHANGED <<db, now, saveVars, sc>>
    /\ UNCHANGED classVars
    /\ UNCHANGED concVars

\* One run() over an empty table, or one call of FindAPhDScraper().scrape().
InitScrape ==
    /\ db = <<>>
    /\ now = 0
    /\ pc \in {"scrape", "call"}
    /\ idx = 1
    /\ stats = ZeroStats
    /\ scraped = <<>>
    /\ raw = <<>>
    /\ cleaned = <<>>
    /\ pos = 1
    /\ tx = <<>>
    /\ saved = 0
    /\ dupes = 0
    /\ failed = FALSE
    /\ ScrapeIdle
    /\ ClassIdle
    /\ ConcIdle

NextScrape ==
    \/ ScrapeCall
    \/ Sleep
    \/ GetOk
    \/ GetBadStatus
    \/ GetException
    \/ PageFailed
    \/ PageEmpty
    \/ PageListed
    \/ ScrapeAbort
    \/ Clean
    \/ SaveStep
    \/ SaveCommit
    \/ SaveFail
    \/ Account

SpecScrape == InitScrape /\ [][NextScrape]_vars

----------------------------------------------------------------------------
(* The classifiers: BaseScraper.detect_funding_type over FUNDING_KEYWORDS  *)
(* and ScholarshipDbScraper._detect_discipline over its disciplines table. *)
(* The three characters of the last keyword of "position" are written     *)
(* "GANG", "WEI", "ZHI".                                                   *)

\* The most phrases a classified text is made of.
MaxWords == 2

UpperCase ==
    <<"A", "B", "C", "D", "E", "F", "G", "H", "I", "J", "K", "L", "M", "N",
      "O", "P", "Q", "R", "S", "T", "U", "V", "W", "X", "Y", "Z">>

LowerCase ==
    <<"a", "b", "c", "d", "e", "f", "g", "h", "i", "j", "k", "l", "m", "n",
      "o", "p", "q", "r", "s", "t", "u", "v", "w", "x", "y", "z">>

\* str.lower()
Lower(s) ==
    [k \in 1..Len(s) |->
        IF \E i \in 1..Len(UpperCase) : UpperCase[i] = s[k]
        THEN LowerCase[CHOOSE i \in 1..Len(UpperCase) : UpperCase[i] = s[k]]
        ELSE s[k]]

\* kw in s
Contains(kw, s) ==
    \E i \in 1..(Len(s) - Len(kw) + 1) : SubSeq(s, i, i + Len(kw) - 1) = kw

\* ", ".join(names)
RECURSIVE Join(_)
Join(names) ==
    IF names = <<>> THEN <<>>
    ELSE IF Len(names) = 1 THEN Head(names)
    ELSE Head(names) \o <<",", " ">> \o Join(Tail(names))

FUNDING_KEYWORDS ==
    <<
      [name |->
          <<"f", "u", "l", "l", "y", "_", "f", "u", "n", "d", "e",
            "d">>,
       keywords |->
         <<<<"f", "u", "l", "l", "y", " ", "f", "u", "n", "d", "e",
             "d">>,
           <<"f", "u", "l", "l", " ", "s", "c", "h", "o", "l", "a",
             "r", "s", "h", "i", "p">>,
           <<"f", "u", "l", "l", "y", "-", "f", "u", "n", "d", "e",
             "d">>,
           <<"f", "u", "l", "l", " ", "f", "u", "n", "d", "i", "n",
             "g">>>>],
      [name |->
          <<"c", "s", "c">>,
       keywords |->
         <<<<"c", "s", "c">>,
           <<"c", "h", "i", "n", "a", " ", "s", "c", "h", "o", "l",
             "a", "r", "s", "h", "i", "p", " ", "c", "o", "u", "n", "c",
             "i", "l">>,
           <<"c", "h", "i", "n", "e", "s", "e", " ", "g", "o", "v",
             "e", "r", "n", "m", "e", "n", "t", " ", "s", "c", "h", "o",
             "l", "a", "r", "s", "h", "i", "p">>>>],
      [name |->
          <<"r", "o", "l", "l", "i", "n", "g">>,
       keywords |->
         <<<<"r", "o", "l", "l", "i", "n", "g">>,
           <<"o", "p", "e", "n", " ", "u", "n", "t", "i", "l", " ",
             "f", "i", "l", "l", "e", "d">>,
           <<"n", "o", " ", "d", "e", "a", "d", "l", "i", "n", "e">>,
           <<"r", "o", "l", "l", "i", "n", "g", " ", "b", "a", "s",
             "i", "s">>>>],
      [name |->
          <<"p", "o", "s", "i", "t", "i", "o", "n">>,
       keywords |->
         <<<<"r", "e", "s", "e", "a", "r", "c", "h", " ", "p", "o",
             "s", "i", "t", "i", "o", "n">>,
           <<"p", "a", "i", "d", " ", "p", "o", "s", "i", "t", "i",
             "o", "n">>,
           <<"e", "m", "p", "l", "o", "y", "e", "d">>,
           <<"s", "a", "l", "a", "r", "y">>,
           <<"GANG", "WEI", "ZHI">>>>]
    >>

\* Mutant of KeywordHits: without the break, a category is appended once
\* for each of its keywords found.
KeywordHitsNoBreak(name, kws, t) ==
    IF kws = <<>> THEN <<>>
    ELSE (IF Contains(Head(kws), t) THEN <<name>> ELSE <<>>)
            \o [k \in 1..Len(SelectSeq(Tail(kws), LAMBDA kw : Contains(kw, t)))
                   |-> name]

\* for kw in keywords: if kw in text_lower: types.append(ftype); break
RECURSIVE KeywordHits(_, _, _)
KeywordHits(name, kws, t) ==
    IF kws = <<>> THEN <<>>
    ELSE IF Contains(Head(kws), t) THEN <<name>>
    ELSE KeywordHits(name, Tail(kws), t)

\* for ftype, keywords in FUNDING_KEYWORDS.items(): ...
RECURSIVE FundingTypes(_, _)
FundingTypes(table, t) ==
    IF table = <<>> THEN <<>>
    ELSE KeywordHits(Head(table).name, Head(table).keywords, t)
            \o FundingTypes(Tail(table), t)

detect_funding_type(txt) ==
    LET types == FundingTypes(FUNDING_KEYWORDS, Lower(txt))
    IN  IF types # <<>> THEN Join(types) ELSE Unknown

disciplines ==
    <<
      [name |->
          <<"C", "o", "m", "p", "u", "t", "e", "r", " ", "S", "c", "i",
            "e", "n", "c", "e">>,
       keywords |->
         <<<<"c", "o", "m", "p", "u", "t", "e", "r", " ", "s", "c",
             "i", "e", "n", "c", "e">>,
           <<"m", "a", "c", "h", "i", "n", "e", " ", "l", "e", "a",
             "r", "n", "i", "n", "g">>,
           <<"a", "r", "t", "i", "f", "i", "c", "i", "a", "l", " ",
             "i", "n", "t", "e", "l", "l", "i", "g", "e", "n", "c",
             "e">>,
           <<"d", "e", "e", "p", " ", "l", "e", "a", "r", "n", "i",
             "n", "g">>,
           <<"s", "o", "f", "t", "w", "a", "r", "e">>,
           <<"d", "a", "t", "a", " ", "s", "c", "i", "e", "n", "c",
             "e">>,
           <<"c", "o", "m", "p", "u", "t", "i", "n", "g">>,
           <<"i", "n", "f", "o", "r", "m", "a", "t", "i", "c", "s">>>>],
      [name |->
          <<"E", "n", "g", "i", "n", "e", "e", "r", "i", "n", "g">>,
       keywords |->
         <<<<"e", "n", "g", "i", "n", "e", "e", "r", "i", "n", "g">>,
           <<"m", "e", "c", "h", "a", "n", "i", "c", "a", "l">>,
           <<"e", "l", "e", "c", "t", "r", "i", "c", "a", "l">>,
           <<"c", "i", "v", "i", "l">>,
           <<"c", "h", "e", "m", "i", "c", "a", "l", " ", "e", "n",
             "g", "i", "n", "e", "e", "r", "i", "n", "g">>,
           <<"r", "o", "b", "o", "t", "i", "c", "s">>>>],
      [name |->
          <<"B", "i", "o", "l", "o", "g", "y">>,
       keywords |->
         <<<<"b", "i", "o", "l", "o", "g", "y">>,
           <<"b", "i", "o", "l", "o", "g">>,
           <<"g", "e", "n", "o", "m", "i", "c">>,
           <<"m", "o", "l", "e", "c", "u", "l", "a", "r">>,
           <<"c", "e", "l", "l", " ", "b", "i", "o", "l", "o", "g",
             "y">>,
           <<"e", "c", "o", "l", "o", "g", "y">>,
           <<"n", "e", "u", "r", "o", "s", "c", "i", "e", "n", "c",
             "e">>,
           <<"b", "i", "o", "m", "e", "d", "i", "c", "a", "l">>>>],
      [name |->
          <<"P", "h", "y", "s", "i", "c", "s">>,
       keywords |->
         <<<<"p", "h", "y", "s", "i", "c", "s">>,
           <<"q", "u", "a", "n", "t", "u", "m">>,
           <<"a", "s", "t", "r", "o", "p", "h", "y", "s", "i", "c",
             "s">>,
           <<"p", "a", "r", "t", "i", "c", "l", "e">>,
           <<"o", "p", "t", "i", "c", "s">>,
           <<"p", "h", "o", "t", "o", "n", "i", "c">>>>],
      [name |->
          <<"C", "h", "e", "m", "i", "s", "t", "r", "y">>,
       keywords |->
         <<<<"c", "h", "e", "m", "i", "s", "t", "r", "y">>,
           <<"c", "h", "e", "m", "i", "c", "a", "l">>,
           <<"c", "a", "t", "a", "l", "y", "s", "i", "s">>,
           <<"p", "o", "l", "y", "m", "e", "r">>,
           <<"o", "r", "g", "a", "n", "i", "c", " ", "c", "h", "e",
             "m", "i", "s", "t", "r", "y">>>>],
      [name |->
          <<"M", "a", "t", "h", "e", "m", "a", "t", "i", "c", "s">>,
       keywords |->
         <<<<"m", "a", "t", "h", "e", "m", "a", "t", "i", "c", "s">>,
           <<"m", "a", "t", "h", "e", "m", "a", "t", "i", "c", "a",
             "l">>,
           <<"s", "t", "a", "t", "i", "s", "t", "i", "c", "s">>,
           <<"p", "r", "o", "b", "a", "b", "i", "l", "i", "t", "y">>,
           <<"a", "l", "g", "e", "b", "r", "a">>>>],
      [name |->
          <<"M", "e", "d", "i", "c", "i", "n", "e">>,
       keywords |->
         <<<<"m", "e", "d", "i", "c", "i", "n", "e">>,
           <<"m", "e", "d", "i", "c", "a", "l">>,
           <<"c", "l", "i", "n", "i", "c", "a", "l">>,
           <<"c", "a", "n", "c", "e", "r">>,
           <<"o", "n", "c", "o", "l", "o", "g", "y">>,
           <<"c", "a", "r", "d", "i", "o", "l", "o", "g", "y">>,
           <<"p", "h", "a", "r", "m", "a">>,
           <<"h", "e", "a", "l", "t", "h">>>>],
      [name |->
          <<"E", "n", "v", "i", "r", "o", "n", "m", "e", "n", "t", "a",
            "l", " ", "S", "c", "i", "e", "n", "c", "e">>,
       keywords |->
         <<<<"e", "n", "v", "i", "r", "o", "n", "m", "e", "n", "t">>,
           <<"c", "l", "i", "m", "a", "t", "e">>,
           <<"s", "u", "s", "t", "a", "i", "n", "a", "b", "i", "l",
             "i", "t", "y">>,
           <<"e", "c", "o", "l", "o", "g", "y">>,
           <<"m", "a", "r", "i", "n", "e">>,
           <<"o", "c", "e", "a", "n">>>>],
      [name |->
          <<"S", "o", "c", "i", "a", "l", " ", "S", "c", "i", "e", "n",
            "c", "e", "s">>,
       keywords |->
         <<<<"s", "o", "c", "i", "a", "l">>,
           <<"s", "o", "c", "i", "o", "l", "o", "g", "y">>,
           <<"p", "s", "y", "c", "h", "o", "l", "o", "g", "y">>,
           <<"p", "o", "l", "i", "t", "i", "c", "a", "l">>,
           <<"e", "c", "o", "n", "o", "m", "i", "c", "s">>,
           <<"e", "d", "u", "c", "a", "t", "i", "o", "n">>,
           <<"l", "a", "w">>,
           <<"p", "o", "l", "i", "c", "y">>>>],
      [name |->
          <<"B", "u", "s", "i", "n", "e", "s", "s">>,
       keywords |->
         <<<<"b", "u", "s", "i", "n", "e", "s", "s">>,
           <<"m", "a", "n", "a", "g", "e", "m", "e", "n", "t">>,
           <<"m", "a", "r", "k", "e", "t", "i", "n", "g">>,
           <<"f", "i", "n", "a", "n", "c", "e">>,
           <<"a", "c", "c", "o", "u", "n", "t", "i", "n", "g">>,
           <<"e", "n", "t", "r", "e", "p", "r", "e", "n", "e", "u",
             "r", "s", "h", "i", "p">>>>],
      [name |->
          <<"A", "r", "t", "s", " ", "&", " ", "H", "u", "m", "a", "n",
            "i", "t", "i", "e", "s">>,
       keywords |->
         <<<<"h", "i", "s", "t", "o", "r", "y">>,
           <<"p", "h", "i", "l", "o", "s", "o", "p", "h", "y">>,
           <<"l", "i", "t", "e", "r", "a", "t", "u", "r", "e">>,
           <<"l", "i", "n", "g", "u", "i", "s", "t", "i", "c", "s">>,
           <<"c", "u", "l", "t", "u", "r", "a", "l">>,
           <<"a", "r", "t", "s">>>>]
    >>

\* for disc, keywords in disciplines.items():
\*     if any(kw in text_lower for kw in keywords): found.append(disc)
RECURSIVE Found(_, _)
Found(table, t) ==
    IF table = <<>> THEN <<>>
    ELSE (IF \E k \in 1..Len(Head(table).keywords) :
                 Contains(Head(table).keywords[k], t)
          THEN <<Head(table).name>>
          ELSE <<>>)
            \o Found(Tail(table), t)

\* Mutant of FirstTwo: three categories are kept.
FirstThree(found) == SubSeq(found, 1, IF Len(found) < 3 THEN Len(found) ELSE 3)

\* found[:2]
FirstTwo(found) == SubSeq(found, 1, IF Len(found) < 2 THEN Len(found) ELSE 2)

detect_discipline(txt) ==
    LET found == Found(disciplines, Lower(txt))
    IN  IF found # <<>> THEN Join(FirstTwo(found)) ELSE <<>>

\* The phrases the classified texts are made of.
Phrases ==
    {<<"F", "u", "l", "l", "y", " ", "F", "u", "n", "d", "e", "d">>,
     <<"f", "u", "l", "l", "y">>,
     <<"f", "u", "n", "d", "e", "d">>,
     <<"r", "o", "l", "l", "i", "n", "g", " ", "b", "a", "s", "i", "s">>,
     <<"C", "S", "C">>,
     <<"s", "a", "l", "a", "r", "y">>,
     <<"GANG", "WEI", "ZHI">>,
     <<"P", "h", "D">>,
     <<"C", "h", "e", "m", "i", "c", "a", "l", " ", "E", "n", "g", "i", "n",
       "e", "e", "r", "i", "n", "g">>,
     <<"e", "c", "o", "l", "o", "g", "y">>,
     <<"M", "a", "c", "h", "i", "n", "e", " ", "L", "e", "a", "r", "n", "i",
       "n", "g">>}

\* f"{title} {description}": the phrases with a blank between them.
RECURSIVE Blanked(_)
Blanked(ws) ==
    IF ws = <<>> THEN <<>>
    ELSE IF Len(ws) = 1 THEN Head(ws)
    ELSE Head(ws) \o <<" ">> \o Blanked(Tail(ws))

\* _parse_listing classifies the text of a listing.
InitClassify ==
    /\ db = <<>>
    /\ now = 0
    /\ pc = "discipline"
    /\ idx = 1
    /\ stats = ZeroStats
    /\ scraped = <<>>
    /\ raw = <<>>
    /\ cleaned = <<>>
    /\ pos = 1
    /\ tx = <<>>
    /\ saved = 0
    /\ dupes = 0
    /\ failed = FALSE
    /\ ScrapeIdle
    /\ ConcIdle
    /\ text \in {Blanked(ws) : ws \in SeqsUpTo(Phrases, MaxWords)}
    /\ funding = <<>>
    /\ disc = <<>>

\* discipline = self._detect_discipline(f"{title} {description}")
DetectDiscipline ==
    /\ pc = "discipline"
    /\ disc' = detect_discipline(text)
    /\ pc' = "funding"
    /\ UNCHANGED <<db, now, idx, stats, scraped, raw, saveVars, scrapeVars,
                   text, funding>>
    /\ UNCHANGED concVars

\* funding_type = self.detect_funding_type(full_text)
DetectFunding ==
    /\ pc = "funding"
    /\ funding' = detect_funding_type(text)
    /\ pc' = "classified"
    /\ UNCHANGED <<db, now, idx, stats, scraped, raw, saveVars, scrapeVars,
                   text, disc>>
    /\ UNCHANGED concVars

NextClassify ==
    \/ DetectDiscipline
    \/ DetectFunding

SpecClassify == InitClassify /\ [][NextClassify]_vars

----------------------------------------------------------------------------
(* Two calls of _save_projects interleaved against one table *)

OtherUrl == <<"h", "y">>

\* What _clean_projects hands to _save_projects for source k: lists of the
\* cleaned base listing and of the same listing under another url.
CleanedLists(k) ==
    LET b == CleanOne(BaseListing(k))
        S == {b, [b EXCEPT !["url"] = OtherUrl]}
    IN  IF Sources[k] = "scholarshipdb"
        THEN {ps \in SeqsUpTo(S, MaxBatch) : NoRepeatedUrl(ps)}
        ELSE SeqsUpTo(S, MaxBatch)

\* The rows of the table as the connection of call r reads them: its own
\* writes are in them once it holds the write lock, and while it holds the
\* lock nobody else commits.
Seen(r) == IF wlock = r THEN ses[r].view ELSE db

\* Mutant of UniqueViolation: the url column carries no unique index.
UniqueViolationNever(table, u) == FALSE

\* url = Column(String(1000), unique=True): the INSERT of a row with url u
\* raises IntegrityError.
UniqueViolation(table, u) == \E k \in 1..Len(table) : table[k].url = u

\* session.add(project): the INSERT waits for the next flush.
Insert(p, clock) ==
    [kind |-> "insert", id |-> 0, p |-> p, ch |-> {}, at |-> clock]

\* The fields ch of the loaded row e were assigned: the UPDATE waits for the
\* next flush.
Update(e, p, ch, clock) ==
    [kind |-> "update", id |-> e, p |-> p, ch |-> ch, at |-> clock]

\* The statement of one pending write: the INSERT takes the next id and
\* the column default's utcnow() for updated_at, the UPDATE sets the
\* assigned columns and the updated_at the loop assigned.
FlushOne(table, op, clock) ==
    IF op.kind = "insert"
    THEN Append(table, [NewRow(op.p, op.at, Len(table) + 1)
                           EXCEPT !.updated_at = clock])
    ELSE [table EXCEPT ![op.id] =
             [k \in DOMAIN @ |->
                 IF k \in op.ch THEN op.p[k]
                 ELSE IF k = "updated_at" THEN op.at
                 ELSE @[k]]]

\* The flush of the pending writes ops, in order, on the rows the connection
\* sees: the rows after it, whether a statement raised, and the clock.
RECURSIVE Flush(_, _, _)
Flush(table, ops, clock) ==
    IF ops = <<>>
    THEN [table |-> table, raised |-> FALSE, clock |-> clock]
    ELSE LET op == Head(ops)
         IN  IF op.kind = "insert" /\ UniqueViolation(table, op.p["url"])
             THEN [table |-> table, raised |-> TRUE, clock |-> clock]
             ELSE Flush(FlushOne(table, op, clock), Tail(ops),
                        IF op.kind = "insert" THEN clock + 1 ELSE clock)

\* A flush writes, and SQLite lets one connection write at a time: call r
\* can flush when it has nothing to write or no other call holds the lock.
CanFlush(r) == ses[r].new = <<>> \/ wlock \in {0, r}

\* The object the query hands back for row e: the one the session loaded
\* before, as the session holds it, or the row as read now.
Loaded(s, table, e) ==
    IF \E o \in s.objs : o.id = e
    THEN CHOOSE o \in s.objs : o.id = e
    ELSE table[e]

\* What the pipeline's own variables hold while only the two calls run.
PipelineIdle ==
    /\ idx = 1
    /\ stats = ZeroStats
    /\ scraped = <<>>
    /\ raw = <<>>
    /\ cleaned = <<>>
    /\ pos = 1
    /\ tx = <<>>
    /\ saved = 0
    /\ dupes = 0
    /\ failed = FALSE

\* Two runs have each reached _save_projects with a cleaned list of one of
\* the sources; the table is empty or holds the row of an earlier run.
InitConcurrent ==
    /\ pc = "interleaved"
    /\ \/ db = <<>> /\ now = 0
       \/ db = <<NewRow(CleanOne(BaseListing(1)), 0, 1)>> /\ now = 2
    /\ PipelineIdle
    /\ ScrapeIdle
    /\ ClassIdle
    /\ \E k1, k2 \in 1..Len(Sources) :
          \E ps1 \in CleanedLists(k1), ps2 \in CleanedLists(k2) :
             ses = [r \in Runs |->
                      SaveCall(IF r = 1 THEN ps1 ELSE ps2, "save")]
    /\ wlock = 0

\* session.rollback() and session.close() of call r: its pending and flushed
\* writes are gone and its lock is free.
RolledBack(r) ==
    /\ db' = Rollback(db, Seen(r))
    /\ wlock' = IF wlock = r THEN 0 ELSE wlock
    /\ ses' = [ses EXCEPT ![r].new = <<>>,
                          ![r].view = <<>>,
                          ![r].objs = {},
                          ![r].pc = "rolledback"]
    /\ UNCHANGED <<now, pc, idx, stats, scraped, raw, saveVars>>
    /\ UNCHANGED scrapeVars
    /\ UNCHANGED classVars

\* One pass of the for loop of call r: the query autoflushes what the pass
\* before left pending, then the candidate is merged into the row found or
\* added to the session.
CallPass(r) ==
    LET s == ses[r]
    IN  /\ s.pc = "save"
        /\ s.pos <= Len(s.cleaned)
        /\ CanFlush(r)
        /\ LET f == Flush(Seen(r), s.new, now)
               p == s.cleaned[s.pos]
               e == FindByUrl(f.table, p["url"])
               o == Loaded(s, f.table, e)
               ch == IF e = 0 THEN {} ELSE ChangedFields(o, p)
               held == (wlock = r \/ s.new # <<>>)
           IN  /\ ~f.raised
               /\ wlock' = IF held THEN r ELSE wlock
               /\ now' = IF e = 0 \/ ch # {} THEN f.clock + 1 ELSE f.clock
               /\ ses' = [ses EXCEPT ![r] =
                     [s EXCEPT
                        !.view = IF held THEN f.table ELSE <<>>,
                        !.new = IF e = 0 THEN <<Insert(p, f.clock)>>
                                ELSE IF ch # {}
                                     THEN <<Update(e, p, ch, f.clock)>>
                                     ELSE <<>>,
                        !.objs = IF e = 0 THEN @
                                 ELSE (@ \ {o}) \cup {MergeRow(o, p, f.clock)},
                        !.pos = @ + 1,
                        !.saved = IF e = 0 THEN @ + 1 ELSE @,
                        !.dupes = IF e = 0 THEN @ ELSE @ + 1]]
        /\ UNCHANGED <<db, pc, idx, stats, scraped, raw, saveVars>>
        /\ UNCHANGED scrapeVars
        /\ UNCHANGED classVars

\* session.commit() of call r succeeds: what is pending is flushed and the
\* rows the connection wrote become the table.
CallCommit(r) ==
    LET s == ses[r]
    IN  /\ s.pc = "save"
        /\ s.pos = Len(s.cleaned) + 1
        /\ CanFlush(r)
        /\ LET f == Flush(Seen(r), s.new, now)
           IN  /\ ~f.raised
               /\ db' = Commit(db, f.table)
               /\ now' = f.clock
        /\ wlock' = IF wlock = r THEN 0 ELSE wlock
        /\ ses' = [ses EXCEPT ![r].new = <<>>,
                              ![r].view = <<>>,
                              ![r].objs = {},
                              ![r].pc = "committed"]
        /\ UNCHANGED <<pc, idx, stats, scraped, raw, saveVars>>
        /\ UNCHANGED scrapeVars
        /\ UNCHANGED classVars

\* The flush of call r (in its next query or in its commit) finds the
\* database locked by the other call and raises OperationalError once the
\* busy timeout is over: the except clause rolls back.
CallLocked(r) ==
    /\ ses[r].pc = "save"
    /\ ~CanFlush(r)
    /\ RolledBack(r)

\* The flush of call r meets the unique index of url and raises
\* IntegrityError: the except clause rolls back.
CallConflict(r) ==
    /\ ses[r].pc = "save"
    /\ CanFlush(r)
    /\ Flush(Seen(r), ses[r].new, now).raised
    /\ RolledBack(r)

\* The storage layer of call r raises for another reason, in a query or in
\* the commit: the except clause rolls back.
CallFault(r) ==
    /\ ses[r].pc = "save"
    /\ ses[r].cleaned # <<>>
    /\ RolledBack(r)

NextConcurrent ==
    \E r \in Runs :
        \/ CallPass(r)
        \/ CallCommit(r)
        \/ CallLocked(r)
        \/ CallConflict(r)
        \/ CallFault(r)

SpecConcurrent == InitConcurrent /\ [][NextConcurrent]_vars

----------------------------------------------------------------------------
(* Properties *)

\* The ids of the rows of store whose url is u.
RowsWithUrl(store, u) == {k \in 1..Len(store) : store[k].url = u}

\* A step that is one pass of the for loop of _save_projects.
LoopPass == pc = "save" /\ pc' = "save" /\ pos' = pos + 1

\* A step in which _save_projects returns.
SaveReturns == pc = "save" /\ pc' = "saved"

\* A step in which scraper.scrape() does not return a list.
ScrapeFails == pc = "scrape" /\ pc' # "clean"

Max(S) == CHOOSE x \in S : \A y \in S : y <= x

\* C1 - Idempotence of upsert.  A batch that was upserted successfully
\* before has every one of its urls in the table (no row is ever deleted).
\* Whenever _save_projects returns without a storage failure for a batch
\* all of whose urls are in the table, it returns (0, N) for the N
\* candidates of the batch, the table has no new row, and every row keeps
\* its collected_at.
C1_Idempotence ==
    [][(SaveReturns /\ ~failed'
          /\ \A j \in 1..Len(cleaned) : RowsWithUrl(db, cleaned[j]["url"]) # {})
       => /\ saved' = 0
          /\ dupes' = Len(cleaned)
          /\ Len(db') = Len(db)
          /\ \A k \in 1..Len(db) : db'[k].collected_at = db[k].collected_at]_vars

\* A batch of two candidates is upserted again: the table holds one row per
\* candidate, equal to it in every field, and the call returned (0, 2).
C1_Witness ==
    /\ pc = "saved" /\ ~failed
    /\ Len(cleaned) = 2 /\ Len(db) = 2
    /\ cleaned[1]["url"] # cleaned[2]["url"]
    /\ saved = 0 /\ dupes = 2
    /\ \A j \in 1..2 : \E k \in 1..2 :
          \A f \in DOMAIN cleaned[j] : db[k][f] = cleaned[j][f]

\* C2 - Storage failure reports zero effect: when a storage failure occurred
\* during the upsert of a batch, _save_projects returns (0, 0).
C2_ZeroOnFailure ==
    (pc = "saved" /\ failed) => (saved = 0 /\ dupes = 0)

\* What a merge field f of the row with url u holds once batch B is fully
\* applied: the value of the last candidate of B with that url that carries
\* a non-empty f; if there is none, what the row held before (old), or for
\* a row the batch inserts what the first candidate with that url gave.
LastWriter(B, u, f) ==
    LET js == {j \in 1..Len(B) :
                  B[j]["url"] = u /\ Get(B[j], f, <<>>) # <<>>}
    IN  IF js = {} THEN 0 ELSE Max(js)

FirstWith(B, u) == Min({j \in 1..Len(B) : B[j]["url"] = u})

InsertedValue(p, f) ==
    IF f = "funding_type" THEN Get(p, f, Unknown) ELSE Get(p, f, <<>>)

FullyApplied(old, new, B) ==
    /\ Len(new) =
          Len(old) + Cardinality({B[j]["url"] : j \in 1..Len(B)}
                                   \ {old[k].url : k \in 1..Len(old)})
    /\ \A k \in 1..Len(old) :
          /\ new[k].url = old[k].url
          /\ \A f \in MergeFields :
                LET w == LastWriter(B, old[k].url, f)
                IN  new[k][f] = IF w = 0 THEN old[k][f] ELSE B[w][f]
    /\ \A k \in (Len(old) + 1)..Len(new) :
          /\ \E j \in 1..Len(B) : B[j]["url"] = new[k].url
          /\ \A f \in MergeFields :
                LET w == LastWriter(B, new[k].url, f)
                IN  new[k][f] =
                       IF w = 0
                       THEN InsertedValue(B[FirstWith(B, new[k].url)], f)
                       ELSE B[w][f]
    /\ \A j \in 1..Len(B) : Cardinality(RowsWithUrl(new, B[j]["url"])) = 1

\* C3 - Batch atomicity: the table changes only in the step in which
\* _save_projects returns without failure; when it returns, the table holds
\* every insert and every overwrite of the batch, or, after a storage
\* failure, exactly the rows it held before the batch.
C3_BatchAtomic ==
    [][/\ db' # db => (SaveReturns /\ ~failed')
       /\ SaveReturns =>
             IF failed' THEN db' = db ELSE FullyApplied(db, db', cleaned)]_vars

\* session.commit() raised after the loop had merged one candidate into the
\* one stored row and inserted another: the table still holds that one row.
\* (The rollback resets tx, so the counters show what the session had done.)
C3_Witness ==
    /\ pc = "saved" /\ failed
    /\ pos = 3 /\ saved = 1 /\ dupes = 1
    /\ Len(db) = 1

\* C4 - Fault isolation: when a source's scrape raises, errors grows by
\* exactly 1, no other counter and no row changes, and the run goes on with
\* the next source (or returns the stats after the last one); errors grows
\* in no other step.
C4_FaultIsolation ==
    [][/\ ScrapeFails =>
             /\ stats' = [stats EXCEPT !.errors = @ + 1]
             /\ db' = db
             /\ IF idx < Len(Sources)
                THEN pc' = "scrape" /\ idx' = idx + 1
                ELSE pc' = "done"
       /\ stats'.errors > stats.errors => ScrapeFails]_vars

\* The first source raised and the second source has been scraped, cleaned
\* and upserted with a new record.
C4_Witness ==
    /\ pc = "saved" /\ idx = 2 /\ ~failed
    /\ stats.errors = 1
    /\ stats.total_scraped = Len(scraped)
    /\ saved >= 1 /\ Len(db) >= 1

\* C5 - Merge selectivity: in a loop pass over a candidate whose url is
\* stored, each of deadline, funding_type, description keeps its stored
\* value when the candidate's value is empty or absent, and takes the
\* candidate's value, with updated_at set to the clock's reading (later than
\* the stored updated_at), when it is non-empty and differs.
C5_MergeSelectivity ==
    [][LoopPass =>
          \A k \in RowsWithUrl(tx, cleaned[pos]["url"]) :
             \A f \in MergeFields :
                LET v == Get(cleaned[pos], f, <<>>)
                IN  /\ v = <<>> => tx'[k][f] = tx[k][f]
                    /\ (v # <<>> /\ v # tx[k][f]) =>
                          /\ tx'[k][f] = v
                          /\ tx'[k].updated_at = now
                          /\ tx'[k].updated_at > tx[k].updated_at]_vars

\* A stored deadline "1" met a candidate with deadline "" and then one with
\* deadline "2": the session's row holds "2" and a later updated_at.
C5_Witness ==
    /\ pc = "save" /\ pos = 3 /\ dupes = 2
    /\ cleaned[1]["deadline"] = <<>>
    /\ cleaned[2]["deadline"] = <<"2">>
    /\ \E k \in 1..Len(db) :
          /\ db[k].url = cleaned[1]["url"] /\ db[k].url = cleaned[2]["url"]
          /\ db[k].deadline = <<"1">>
          /\ tx[k].deadline = <<"2">>
          /\ tx[k].updated_at > db[k].updated_at

\* u is v followed by a tracking query suffix.
TrackingSuffixed(u, v) ==
    /\ Len(u) > Len(v)
    /\ SubSeq(u, 1, Len(v)) = v
    /\ StartsWith(SubSeq(u, Len(v) + 1, Len(u)), UtmMarker)

\* C6 - Identity under tracking suffix: when a batch has been upserted, any
\* two of its candidates that reached the upsert and whose urls, as scraped,
\* differ only by a tracking query suffix are one row of the table, and the
\* later one was counted as merged.
C6_SuffixIdentity ==
    (pc = "saved" /\ ~failed) =>
       \A j, k \in 1..Len(scraped) :
          (/\ ~Dropped(scraped[j]) /\ ~Dropped(scraped[k])
           /\ TrackingSuffixed(scraped[j]["url"], scraped[k]["url"]))
          => /\ Cardinality(RowsWithUrl(db, raw[j]["url"])
                              \cup RowsWithUrl(db, raw[k]["url"])) = 1
             /\ dupes >= 1

UniqueUrls(store) ==
    \A j, k \in 1..Len(store) : j # k => store[j].url # store[k].url

\* C8 - URL uniqueness: no two rows of the table, nor of the session's view
\* of it, have the same url; a loop pass over a candidate whose url is not
\* stored adds one row with that url and counts it saved, and a pass over a
\* candidate whose url is stored adds no row and counts it a duplicate.
C8_UrlUnique ==
    /\ [](UniqueUrls(db) /\ UniqueUrls(tx))
    /\ [][LoopPass =>
             IF RowsWithUrl(tx, cleaned[pos]["url"]) = {}
             THEN /\ Len(tx') = Len(tx) + 1
                  /\ tx'[Len(tx')].url = cleaned[pos]["url"]
                  /\ saved' = saved + 1 /\ dupes' = dupes
             ELSE /\ Len(tx') = Len(tx)
                  /\ saved' = saved /\ dupes' = dupes + 1]_vars

\* One batch held the same normalized url twice, on its first sighting: one
\* row was created and the second candidate was merged into it.
C8_Witness ==
    /\ pc = "saved" /\ ~failed
    /\ Len(cleaned) = 2 /\ cleaned[1]["url"] = cleaned[2]["url"]
    /\ saved = 1 /\ dupes = 1
    /\ Len(db) = 1

FrameFields ==
    {"id", "title", "university", "department", "supervisor", "region",
     "region_cn", "country", "discipline", "url", "source", "is_new",
     "collected_at"}

Framed(old, new) ==
    /\ Len(new) >= Len(old)
    /\ \A k \in 1..Len(old) : \A f \in FrameFields : new[k][f] = old[k][f]

\* C9 - Frame: no step removes a row of the table, and no step changes, on a
\* row that exists, any field other than deadline, funding_type, description
\* and updated_at; the same holds of the session's view in every loop pass.
C9_Frame ==
    [][/\ Framed(db, db')
       /\ LoopPass => Framed(tx, tx')]_vars

\* A candidate of another source, with another title and other descriptive
\* fields, was merged into a stored row and committed: the row took its
\* description and kept its own title and source.
C9_Witness ==
    /\ pc = "saved" /\ ~failed
    /\ Len(cleaned) = 1 /\ saved = 0 /\ dupes = 1
    /\ \E k \in 1..Len(db) :
          /\ db[k].url = cleaned[1]["url"]
          /\ db[k].description = cleaned[1]["description"]
          /\ db[k].title # cleaned[1]["title"]
          /\ db[k].source # cleaned[1]["source"]
          /\ db[k].university # cleaned[1]["university"]
          /\ db[k].updated_at > db[k].collected_at + 1

\* C10 - updated_at changes only on real change: in every loop pass, a row
\* of the session gets another updated_at exactly when one of its deadline,
\* funding_type, description gets another value in that pass; and a row of
\* the table gets another updated_at only by the commit of such a session.
C10_UpdatedAt ==
    [][/\ LoopPass =>
             \A k \in 1..Len(tx) :
                (tx'[k].updated_at # tx[k].updated_at)
                   <=> (\E f \in MergeFields : tx'[k][f] # tx[k][f])
       /\ \A k \in 1..Len(db) :
             (Len(db') >= k /\ db'[k].updated_at # db[k].updated_at)
                => (SaveReturns /\ db'[k].updated_at = tx[k].updated_at)]_vars

\* The same candidate twice in one batch: the first pass changed the stored
\* deadline and set updated_at, the second changed nothing and left it.
C10_Witness ==
    /\ pc = "save" /\ pos = 3 /\ dupes = 2
    /\ cleaned[1] = cleaned[2]
    /\ \E k \in 1..Len(db) :
          /\ db[k].url = cleaned[1]["url"]
          /\ tx[k].deadline # db[k].deadline
          /\ tx[k].updated_at = now - 1
          /\ db[k].updated_at < now - 1

----------------------------------------------------------------------------
(* Properties of the extractors *)

\* Everything the scrape() in hand holds, in the order it will return it.
Collected == all_projects \o region_projects \o url_projects

\* The urls of the candidates of a list.
Urls(ps) == {ps[k]["url"] : k \in 1..Len(ps)}

\* A step that asks for the next page of the url in hand.
NextPageAsked == spc' = "sleep" /\ rg' = rg /\ ui' = ui /\ pg' = pg + 1

\* A step in which an exception leaves scrape().
ScrapeRaises ==
    \/ stats'.errors # stats.errors
    \/ pc' = "raised"

\* A step in which the page loop of the url in hand is left by break: the
\* next url is taken up from its first page, or scrape() returns.  No
\* candidate gathered so far is lost: the list scrape() holds afterwards has
\* the urls it held before, and is that very list where the scraper does
\* not filter by url.
LeftByBreak ==
    /\ ~NextPageAsked
    /\ ~ScrapeRaises
    /\ \/ /\ spc' = "sleep"
          /\ pg' = 1
          /\ fetches' = 1
          /\ <<rg', ui'>> # <<rg, ui>>
          /\ Urls(all_projects' \o region_projects') = Urls(Collected)
          /\ sc # "scholarshipdb" => all_projects' = Collected
       \/ /\ spc' = "idle"
          /\ pc' \in {"clean", "returned"}
          /\ Urls(scraped') = Urls(Collected)
          /\ sc # "scholarshipdb" => scraped' = Collected

AttemptFails == spc = "get" /\ gets' = gets + 1 /\ attempt' = attempt + 1

\* A step in which an attempt of fetch_page succeeds.
AttemptSucceeds == spc = "get" /\ gets' = gets + 1 /\ attempt' = attempt

\* C12 - Fetcher retry bound and failure value: a fetch_page call sends at
\* most MAX_RETRIES GETs; an attempt that succeeds ends the call with its
\* document; an attempt that fails is followed by another unless it was
\* attempt MAX_RETRIES, and then the call returns None and raises nothing;
\* what the call returned is None exactly when MAX_RETRIES attempts failed.
C12_FetchRetry ==
    /\ [](/\ gets <= MAX_RETRIES
          /\ spc \in {"sleep", "get"} => gets = attempt /\ attempt < MAX_RETRIES
          /\ spc = "parse" =>
                /\ soup.none <=> (attempt = MAX_RETRIES /\ gets = MAX_RETRIES)
                /\ ~soup.none => gets = attempt + 1)
    /\ [][/\ AttemptSucceeds =>
                /\ spc' = "parse"
                /\ ~soup'.none
                /\ ~ScrapeRaises
          /\ AttemptFails =>
                /\ ~ScrapeRaises
                /\ IF attempt' < MAX_RETRIES
                   THEN spc' = "sleep" /\ pg' = pg
                   ELSE spc' = "parse" /\ soup'.none]_vars

\* fetch_page has returned None after MAX_RETRIES failed attempts, and
\* run() has counted no error.
C12_Witness ==
    /\ spc = "parse"
    /\ soup.none
    /\ gets = MAX_RETRIES
    /\ pc = "scrape"
    /\ stats.errors = 0

\* C13 - Within-run URL deduplication: the list a multi-region scraper's
\* scrape() has returned holds no two candidates with an equal url.
C13_NoRepeatedUrl ==
    (pc \in {"clean", "returned"} /\ sc \in {"scholarshipdb", "findaphd"})
       => NoRepeatedUrl(scraped)

----------------------------------------------------------------------------
(* Properties of the classifiers *)

\* Two characters that are equal up to case.
CaseEq(a, b) ==
    \/ a = b
    \/ \E i \in 1..Len(UpperCase) : {a, b} = {UpperCase[i], LowerCase[i]}

\* kw is contained in s, case-insensitively.
ContainsCI(kw, s) ==
    \E i \in 1..(Len(s) - Len(kw) + 1) :
       \A j \in 1..Len(kw) : CaseEq(s[i + j - 1], kw[j])

\* The indices of the categories of a table with a keyword contained in s.
Matching(table, s) ==
    {c \in 1..Len(table) :
        \E k \in 1..Len(table[c].keywords) :
           ContainsCI(table[c].keywords[k], s)}

\* The names of the categories of table whose index is in S, in table
\* order, each once.
RECURSIVE NamesFrom(_, _, _)
NamesFrom(table, S, c) ==
    IF c > Len(table) THEN <<>>
    ELSE (IF c \in S THEN <<table[c].name>> ELSE <<>>)
            \o NamesFrom(table, S, c + 1)

FullyFundedRolling ==
    <<"f", "u", "l", "l", "y", "_", "f", "u", "n", "d", "e", "d", ",", " ",
      "r", "o", "l", "l", "i", "n", "g">>

\* C14 - Funding classification: what detect_funding_type returns is the
\* ", "-joined list of exactly the categories of FUNDING_KEYWORDS with a
\* keyword contained case-insensitively in the text, each once and in table
\* order; it is "unknown" exactly when no keyword matches, and never empty;
\* a text in which just fully_funded and rolling match gives
\* "fully_funded, rolling".
C14_Funding ==
    pc = "classified" =>
       LET M == Matching(FUNDING_KEYWORDS, text)
       IN  /\ funding # <<>>
           /\ funding = Unknown <=> M = {}
           /\ M # {} => funding = Join(NamesFrom(FUNDING_KEYWORDS, M, 1))
           /\ M = {1, 3} => funding = FullyFundedRolling

\* "Fully Funded rolling basis" was classified: two keywords of rolling and
\* one of fully_funded, in capitals, are in it.
C14_Witness ==
    /\ pc = "classified"
    /\ funding = FullyFundedRolling
    /\ text # Lower(text)
    /\ Contains(FUNDING_KEYWORDS[3].keywords[1], text)
    /\ Contains(FUNDING_KEYWORDS[3].keywords[4], text)

\* The matching categories before which fewer than n categories match.
FirstMatching(table, s, n) ==
    LET M == Matching(table, s)
    IN  {c \in M : Cardinality({b \in M : b < c}) < n}

\* C15 as claimed - what _detect_discipline returns is the ", "-joined list
\* of all categories with a keyword contained case-insensitively in the
\* text, however many match, and is empty exactly when none matches.
C15_AllDisciplines ==
    pc \in {"funding", "classified"} =>
       LET M == Matching(disciplines, text)
       IN  /\ disc = Join(NamesFrom(disciplines, M, 1))
           /\ disc = <<>> <=> M = {}

\* C15 - Discipline classification: what _detect_discipline returns is the
\* ", "-joined list, in table order, of the first two (or the only one) of
\* the categories with a keyword contained case-insensitively in the text;
\* a third or later matching category is left out; the result is empty
\* exactly when none matches.
C15_FirstTwoDisciplines ==
    pc \in {"funding", "classified"} =>
       LET M == Matching(disciplines, text)
       IN  /\ disc = Join(NamesFrom(disciplines,
                                    FirstMatching(disciplines, text, 2), 1))
           /\ disc = <<>> <=> M = {}

EngineeringBiology ==
    <<"E", "n", "g", "i", "n", "e", "e", "r", "i", "n", "g", ",", " ", "B",
      "i", "o", "l", "o", "g", "y">>

\* "Chemical Engineering ecology" was classified: Engineering, Biology,
\* Chemistry and Environmental Science match, the first two are returned.
C15_Witness ==
    /\ pc = "classified"
    /\ Matching(disciplines, text) = {2, 3, 5, 8}
    /\ disc = EngineeringBiology

----------------------------------------------------------------------------
(* Properties of the pipeline, continued *)

\* C16 - Normalizer trimming: in every candidate _clean_projects returns,
\* every string value, the url after its tracking suffix is cut included,
\* has no leading and no trailing whitespace.
C16_Trimmed ==
    pc \in {"save", "saved"} =>
       \A k \in 1..Len(cleaned) :
          \A f \in DOMAIN cleaned[k] : cleaned[k][f] = Strip(cleaned[k][f])

RECURSIVE Sum(_)
Sum(ns) == IF ns = <<>> THEN 0 ELSE Head(ns) + Sum(Tail(ns))

\* The most steps one page takes: a sleep and a GET for each attempt, and
\* the handling of what fetch_page returned.
PageSteps == 2 * MAX_RETRIES + 1

\* The most steps scrape() of scraper s takes once called.
ScrapeSteps(s) == Sum(RegionUrls(s)) * MAX_PAGES(s) * PageSteps

\* The most steps run() spends on scraper s: the call, the scrape, then
\* _clean_projects, the passes and the return of _save_projects, and the
\* accounting.
SourceSteps(s) == 1 + ScrapeSteps(s) + MaxBatch + 3

\* The steps the sources after the k-th may still take.
LaterSources(k) ==
    Sum([j \in 1..(Len(Sources) - k) |-> SourceSteps(Sources[k + j])])

\* The steps the scrape() in hand may still take.
ScrapeLeft ==
    LET counts == RegionUrls(sc)
        urlsLeft == Sum(SubSeq(counts, rg, Len(counts))) - ui
        pageLeft == CASE spc = "sleep" -> 2 * (MAX_RETRIES - attempt) + 1
                      [] spc = "get"   -> 2 * (MAX_RETRIES - attempt)
                      [] spc = "parse" -> 1
    IN  pageLeft + (MAX_PAGES(sc) - pg) * PageSteps
           + urlsLeft * MAX_PAGES(sc) * PageSteps

\* An upper bound of the steps left until run() (or the scrape() called on
\* its own) has returned.
Rank ==
    CASE pc = "scrape" /\ spc = "idle" ->
            SourceSteps(Sources[idx]) + LaterSources(idx)
      [] pc = "scrape" /\ spc # "idle" ->
            ScrapeLeft + MaxBatch + 3 + LaterSources(idx)
      [] pc = "clean" -> Len(raw) + 3 + LaterSources(idx)
      [] pc = "save"  -> Len(cleaned) - pos + 3 + LaterSources(idx)
      [] pc = "saved" -> 1 + LaterSources(idx)
      [] pc = "call" /\ spc = "idle" -> 1 + ScrapeSteps("findaphd")
      [] pc = "call" /\ spc # "idle" -> ScrapeLeft
      [] pc \in {"done", "returned", "raised"} -> 0

\* run() has returned its stats, or the scrape() called on its own is over.
Finished == pc \in {"done", "returned", "raised"}

\* C17 - Run termination: whatever the fetches, the pages and the storage
\* do, every step of run() lowers a bound of the steps left, a step is
\* possible until run() has returned (in _save_projects one that is no
\* storage failure), and run() returns its stats with the last configured
\* scraper behind it; for no url are more than MAX_PAGES pages asked, for
\* no page are more than MAX_RETRIES GETs sent.
C17_Terminates ==
    /\ [](/\ Rank >= 0
          /\ ~Finished => ENABLED NextScrape
          /\ pc = "save" => ENABLED (SaveStep \/ SaveCommit)
          /\ pc = "done" =>
                /\ idx = Len(Sources)
                /\ DOMAIN stats = DOMAIN ZeroStats
          /\ spc # "idle" =>
                /\ fetches = pg
                /\ fetches <= MAX_PAGES(sc)
                /\ gets <= MAX_RETRIES)
    /\ [][Rank' < Rank]_vars

\* run() has returned: one scrape() raised, the other returned two
\* candidates, and their batch met a storage failure after an insert.
C17_Witness ==
    /\ pc = "done"
    /\ stats.errors = 1
    /\ stats.total_scraped = 2
    /\ stats.new_saved = 1
    /\ db = <<>>

----------------------------------------------------------------------------
(* Properties of the extractors, continued *)

\* The url in hand is the last of the scraper's url table.
LastUrl ==
    /\ rg = Len(RegionUrls(sc))
    /\ ui = RegionUrls(sc)[rg]

\* The place in the url table after the url in hand.
NextUrl ==
    IF ui < RegionUrls(sc)[rg] THEN <<rg, ui + 1>> ELSE <<rg + 1, 1>>

----------------------------------------------------------------------------
(* Properties of the pipeline, continued *)

\* The urls of the rows of a store.
StoredUrls(store) == {store[k].url : k \in 1..Len(store)}

\* C19 - Upsert counting: a pass of the loop counts its candidate as merged
\* when its url is known to the session (stored before the batch or
\* inserted earlier in it), whether or not a field changes, and as
\* inserted otherwise; when _save_projects returns without a storage
\* failure, saved + dupes is the length of the batch, saved is the number
\* of distinct urls of the batch that were not stored before, and that
\* many rows are added.
C19_UpsertCounting ==
    [][/\ LoopPass =>
             IF cleaned[pos]["url"] \in StoredUrls(tx)
             THEN saved' = saved /\ dupes' = dupes + 1
             ELSE saved' = saved + 1 /\ dupes' = dupes
       /\ (SaveReturns /\ ~failed') =>
             /\ saved + dupes = Len(cleaned)
             /\ saved = Cardinality(Urls(cleaned) \ StoredUrls(db))
             /\ Len(db') = Len(db) + saved]_vars

\* A batch of two equal candidates has been saved: the first was inserted,
\* the second merged without any change.
C19_Witness ==
    /\ pc = "saved"
    /\ ~failed
    /\ Len(cleaned) = 2
    /\ saved = 1
    /\ dupes = 1
    /\ cleaned[1] = cleaned[2]

\* A step after which run() is through with the scraper in hand: it stands
\* before the scrape of the next one, or has returned after the last.
NextSource ==
    \/ idx < Len(Sources) /\ idx' = idx + 1 /\ pc' = "scrape"
    \/ idx = Len(Sources) /\ idx' = idx /\ pc' = "done"

\* C20 - Orchestrator ordering and no source-level retry: a run() starts at
\* the first configured scraper; the scrape of the scraper in hand is
\* invoked once, and whether it returns or raises, run() never stands
\* before the scrape of that scraper again in the run; after a scrape that
\* returned come _clean_projects on its list, then _save_projects on the
\* cleaned list, and only when _save_projects has returned the next
\* scraper is taken, in the order of self.scrapers.
C20_Ordering ==
    /\ [](/\ idx \in 1..Len(Sources)
          /\ \A k \in 1..Len(scraped) : scraped[k]["source"] = SourceName(idx))
    /\ [][/\ pc = "scrape" =>
                \/ pc' = "clean" /\ idx' = idx
                \/ NextSource /\ stats'.errors = stats.errors + 1
          /\ pc = "clean" =>
                /\ pc' = "save"
                /\ idx' = idx
                /\ cleaned' = clean_projects(scraped)
                /\ pos' = 1
          /\ pc = "save" =>
                /\ pc' \in {"save", "saved"}
                /\ idx' = idx
                /\ cleaned' = cleaned
          /\ pc = "saved" => NextSource
          /\ pc = "done" => pc' = "scrape" /\ idx' = 1]_vars

\* The first scraper's scrape raised; run() did not call it again and is
\* saving what the second scraper returned.
C20_Witness ==
    /\ pc = "save"
    /\ idx = 2
    /\ stats.errors = 1
    /\ stats.total_scraped = Len(scraped)
    /\ pos = 2

----------------------------------------------------------------------------
(* Properties of the run's accounting *)

\* C21 - Storage failure is invisible in the error counter: when
\* _save_projects has met a storage failure, the step of run() that follows
\* leaves errors as it is, adds 0 to new_saved and 0 to duplicates, and
\* takes the next scraper (or returns the stats after the last one).
C21_FailureAddsNothing ==
    [][(pc = "saved" /\ failed) =>
          /\ stats'.errors = stats.errors
          /\ stats'.new_saved = stats.new_saved
          /\ stats'.duplicates = stats.duplicates
          /\ NextSource]_vars

----------------------------------------------------------------------------
(* Properties of the inter-request delay *)

\* session.get is called: it answers, raises a RequestException, or the
\* answer cannot be turned into a document.
GetIssued == GetOk \/ GetBadStatus \/ GetException \/ ScrapeAbort

\* C22 - Politeness delay before every attempt: the place of fetch_page
\* where session.get is called is reached by time.sleep(REQUEST_DELAY) and
\* by nothing else (not by entering fetch_page, not by a retry after a wrong
\* status code or a transport error), every GET is issued from that place
\* and leaves it, and the count of GETs grows by such a step only; so each
\* GET is immediately preceded by one delay and no two GETs follow one
\* another without a delay between them.
C22_DelayBeforeEveryGet ==
    /\ spc # "get"
    /\ [][/\ spc' = "get" => Sleep
          /\ GetIssued => (spc = "get" /\ spc' # "get")
          /\ gets' > gets => GetIssued]_vars

\* The third GET of one fetch_page has answered 200 after two failed
\* attempts.
C22_Witness ==
    /\ spc = "parse"
    /\ ~soup.none
    /\ gets = MAX_RETRIES

\* new_saved as run() holds it once the batch that has just returned is
\* added.
NewSavedDue == stats.new_saved + (IF pc = "saved" THEN saved ELSE 0)

\* The counters at the end of a run are within what was scraped and within
\* the number of scrapers.
StatsWithinBounds ==
    pc = "done" =>
        /\ stats.new_saved + stats.duplicates <= stats.total_scraped
        /\ stats.errors <= Len(Sources)

\* A source whose scrape raises adds nothing to the three counts.
RaiseAddsNothing ==
    ScrapeFails =>
        /\ stats'.total_scraped = stats.total_scraped
        /\ stats'.new_saved = stats.new_saved
        /\ stats'.duplicates = stats.duplicates

\* Every step of a run grows the table by what it adds to new_saved, so
\* that the table at the end has new_saved records more than at the start.
StoreGrowsByNewSaved ==
    pc # "done" => Len(db') - NewSavedDue' = Len(db) - NewSavedDue

\* C23 - Stats accounting invariant: at the end of every run new_saved +
\* duplicates <= total_scraped and errors <= number of configured sources;
\* a source whose scrape raises adds 0 to total_scraped, new_saved and
\* duplicates; and, run() being the only writer, the number of records in
\* the table after the run is the number before it plus new_saved.
C23_StatsAccounting ==
    /\ []StatsWithinBounds
    /\ [][RaiseAddsNothing /\ StoreGrowsByNewSaved]_vars

----------------------------------------------------------------------------
(* Properties of two interleaved _save_projects calls *)

\* No two rows of the table carry the same url.
UrlsUnique ==
    \A j, k \in 1..Len(db) : j # k => db[j].url # db[k].url

\* Every row of the table is still there after the step, under its id and
\* its url.
RowsStay ==
    /\ Len(db') >= Len(db)
    /\ \A k \in 1..Len(db) : db'[k].id = db[k].id /\ db'[k].url = db[k].url

\* The commit of call r stores the whole list: every url of it is in the
\* table, with one new row for each candidate the call counted as saved.
AppliedEntirely(r) ==
    /\ \A i \in 1..Len(ses[r].cleaned) :
          RowsWithUrl(db', ses[r].cleaned[i]["url"]) # {}
    /\ Len(db') = Len(db) + ses[r].saved

\* C24 - Concurrent runs: when two calls of _save_projects interleave
\* against one table in any order (both may look up a url that is not
\* stored before either commits), the table never holds two rows with the
\* same url; a call's list is applied entirely, by its commit, or not at
\* all, when it rolls back; and no step, a rollback of the other call
\* included, removes a row that was committed.
C24_ConcurrentRuns ==
    /\ []UrlsUnique
    /\ [][/\ RowsStay
          /\ \A r \in Runs :
                /\ ses'[r].pc = "committed" /\ ses[r].pc = "save"
                      => AppliedEntirely(r)
                /\ ses'[r].pc = "rolledback" /\ ses[r].pc = "save"
                      => db' = db
          /\ (\A r \in Runs : ses'[r].pc # "committed" \/ ses[r].pc # "save")
                => db' = db]_vars

\* One call has committed a url that the other call looked up before, did
\* not find, and still holds as a pending INSERT.
C24_Witness ==
    \E r, q \in Runs :
        /\ ses[r].pc = "committed"
        /\ ses[q].pc = "save"
        /\ ses[q].new # <<>>
        /\ ses[q].new[1].kind = "insert"
        /\ RowsWithUrl(db, ses[q].new[1].p["url"]) # {}
        /\ ses[q].new[1].p["url"] \in Urls(ses[r].cleaned)
        /\ ses[r].saved > 0

====
